---- MODULE Spec2Model ----
(***************************************************************************)
(* cloudrun-slog: the trace-context middleware (WithCloudTraceContext) and *)
(* the Cloud Logging slog handler (CloudLoggingHandler) of main.go, over   *)
(* the log/slog JSON handler the program builds in NewCloudLoggingHandler. *)
(*                                                                         *)
(* Header values, project identifiers and trace resource names are         *)
(* sequences of one-character strings, so that strings.Split and           *)
(* fmt.Sprintf are computed character by character. Attribute keys and     *)
(* messages are atoms: the program only compares them for equality.        *)
(***************************************************************************)
EXTENDS Integers, Sequences, FiniteSets, TLC

VARIABLES
    projectID,  \* main.go:25 the project identifier captured by the middleware closure
    emitters,   \* the CloudLoggingHandler values created so far (main.go:61)
    tasks,      \* one record per request / caller: its position and locals
    mu,         \* the JSON handler's mutex, shared by every derived handler
    stderr,     \* os.Stderr: the chunks written since the last line that was written whole
    derived     \* history: how each emitter after the first was derived

vars == <<projectID, emitters, tasks, mu, stderr, derived>>

----------------------------------------------------------------------------
(* Bounds of the model *)

\* longest X-Cloud-Trace-Context value enumerated in SpecMW
MaxHdrLen == 3
\* Handle calls one request makes
MaxLogs == 2
\* CloudLoggingHandler values alive at once (the first is NewCloudLoggingHandler's)
MaxEmitters == 2
\* Handle calls one request makes when requests run concurrently (Spec)
ConcLogs == 1
\* write(2) calls os.Stderr may need for one line (a short write continues)
NumChunks == 2

----------------------------------------------------------------------------
(* Strings *)

Slash == "/"

\* "projects/" and "/traces/" of the format string at main.go:43
ProjectsPrefix == <<"p", "r", "o", "j", "e", "c", "t", "s", "/">>
TracesInfix == <<"/", "t", "r", "a", "c", "e", "s", "/">>

RECURSIVE SplitFrom(_, _, _)
SplitFrom(s, i, cur) ==
    IF i > Len(s) THEN <<cur>>
    ELSE IF s[i] = Slash THEN <<cur>> \o SplitFrom(s, i + 1, <<>>)
    ELSE SplitFrom(s, i + 1, Append(cur, s[i]))

\* strings.Split(s, "/"): never empty, Split("") = [""]
Split(s) == SplitFrom(s, 1, <<>>)

\* fmt.Sprintf("projects/%s/traces/%s", project, id)
Sprintf(project, id) == ProjectsPrefix \o project \o TracesInfix \o id

RECURSIVE SeqsUpTo(_, _)
SeqsUpTo(alphabet, n) ==
    IF n = 0 THEN {<<>>}
    ELSE LET shorter == SeqsUpTo(alphabet, n - 1)
         IN shorter \cup {Append(s, c) : s \in {x \in shorter : Len(x) = n - 1}, c \in alphabet}

----------------------------------------------------------------------------
(* Project identifier resolution, main.go:25-36 *)

Myproj == <<"m", "y", "p", "r", "o", "j">>

\* values of GOOGLE_CLOUD_PROJECT ("" when unset)
EnvValues == {<<>>, <<"p">>, Myproj}
\* outcomes of metadata.ProjectID()
MetadataResults == {[err |-> TRUE, id |-> <<>>], [err |-> FALSE, id |-> <<"q">>]}

ResolveProject(env, md) ==
    IF env # <<>> THEN [panic |-> FALSE, id |-> env]
    ELSE IF md.err THEN [panic |-> TRUE, id |-> <<>>]
    ELSE [panic |-> FALSE, id |-> md.id]

----------------------------------------------------------------------------
(* Contexts: a chain of key/value pairs, the innermost last *)

TraceKey == "trace"
Nil == [kind |-> "nil", v |-> <<>>]
StrVal(s) == [kind |-> "string", v |-> s]

Background == <<>>

\* context.WithValue(ctx, key, val)
WithValue(ctx, key, val) == Append(ctx, [key |-> key, val |-> val])

RECURSIVE ValueFrom(_, _, _)
ValueFrom(ctx, key, i) ==
    IF i = 0 THEN Nil
    ELSE IF ctx[i].key = key THEN ctx[i].val
    ELSE ValueFrom(ctx, key, i - 1)

\* ctx.Value(key): the innermost binding, nil when there is none
Value(ctx, key) == ValueFrom(ctx, key, Len(ctx))

----------------------------------------------------------------------------
(* The middleware closure, main.go:38-46 *)

\* r.Header.Get("X-Cloud-Trace-Context"): the first value, "" when absent
HeaderGet(header) == IF Len(header) = 0 THEN <<>> ELSE header[1]

TraceOf_lastPart(project, traceHeader) ==
    LET traceParts == Split(traceHeader)
    IN IF Len(traceParts) > 0 /\ Len(traceParts[Len(traceParts)]) > 0
       THEN Sprintf(project, traceParts[Len(traceParts)])
       ELSE <<>>

\* main.go:39-44
TraceOf(project, traceHeader) ==
    LET traceParts == Split(traceHeader)
    IN IF Len(traceParts) > 0 /\ Len(traceParts[1]) > 0
       THEN Sprintf(project, traceParts[1])
       ELSE <<>>

Middleware_freshContext(project, w, r) ==
    [w |-> w, written |-> <<>>,
     r |-> [r EXCEPT !.ctx = WithValue(Background, TraceKey,
                                StrVal(TraceOf(project, HeaderGet(r.header))))]]

\* main.go:45 the (w, r) the closure hands to h.ServeHTTP, and what the
\* closure itself writes to w
Middleware(project, w, r) ==
    [w |-> w, written |-> <<>>,
     r |-> [r EXCEPT !.ctx = WithValue(r.ctx, TraceKey,
                                StrVal(TraceOf(project, HeaderGet(r.header))))]]

\* the trace kept in one place for all requests instead of in each context
traceFromContext_shared(ctx) ==
    LET served == {t \in DOMAIN tasks : Value(tasks[t].ctx, TraceKey) # Nil}
    IN IF served = {} THEN [panic |-> FALSE, s |-> <<>>]
       ELSE [panic |-> FALSE,
             s |-> Value(tasks[CHOOSE t \in served : \A u \in served : t <= u].ctx, TraceKey).v]

\* main.go:49-55; the type assertion panics on a value that is no string
traceFromContext(ctx) ==
    LET trace == Value(ctx, TraceKey)
    IN IF trace = Nil THEN [panic |-> FALSE, s |-> <<>>]
       ELSE IF trace.kind # "string" THEN [panic |-> TRUE, s |-> <<>>]
       ELSE [panic |-> FALSE, s |-> trace.v]

----------------------------------------------------------------------------
(* log/slog values, attributes and records *)

\* a slog.Value: kind, text (s), number (n), group members (g)
StringValue(s) == [kind |-> "string", s |-> s, n |-> 0, g |-> <<>>]
IntValue(n) == [kind |-> "int", s |-> <<>>, n |-> n, g |-> <<>>]
\* slog.AnyValue(slog.Level(l))
LevelValue(l) == [kind |-> "level", s |-> <<>>, n |-> l, g |-> <<>>]
TimeValue(t) == [kind |-> "time", s |-> <<>>, n |-> t, g |-> <<>>]
\* slog.AnyValue(r.source()), from the record's program counter
SourceValue(pc) == [kind |-> "source", s |-> <<>>, n |-> pc, g |-> <<>>]
GroupValue(as) == [kind |-> "group", s |-> <<>>, n |-> 0, g |-> as]
\* the zero slog.Value (KindAny holding nil)
ZeroValue == [kind |-> "zero", s |-> <<>>, n |-> 0, g |-> <<>>]

Attr(key, val) == [key |-> key, val |-> val]

\* slog's built-in keys
TimeKey == "time"
LevelKey == "level"
MessageKey == "msg"
SourceKey == "source"
BuiltinKeys == {MessageKey, LevelKey, SourceKey}

MessageName == "message"
SeverityName == "severity"
SourceLocationName == "logging.googleapis.com/sourceLocation"
TraceName == "logging.googleapis.com/trace"

\* main.go:17
LevelCritical == 12
\* main.go:66 HandlerOptions.Level
LevelDebug == -4

\* slog.Level.String(): the base name and the offset from it (0: none)
LevelString(l) ==
    LET str(base, off) == [text |-> <<base>>, off |-> off]
    IN IF l < 0 THEN str("DEBUG", l - LevelDebug)
       ELSE IF l < 4 THEN str("INFO", l)
       ELSE IF l < 8 THEN str("WARN", l - 4)
       ELSE str("ERROR", l - 8)

\* the JSON form of a value that is no group: strings are quoted text, a
\* slog.Level marshals as its String(), a time as a timestamp
JSONValue(v) ==
    CASE v.kind = "string" -> [json |-> "string", text |-> v.s, off |-> 0]
      [] v.kind = "level" -> [json |-> "string", text |-> LevelString(v.n).text,
                              off |-> LevelString(v.n).off]
      [] v.kind = "int" -> [json |-> "number", text |-> <<>>, off |-> v.n]
      [] v.kind = "time" -> [json |-> "string", text |-> <<"time">>, off |-> v.n]
      [] OTHER -> [json |-> "null", text |-> <<>>, off |-> 0]

\* slog.Record.Clone: a copy that shares no attribute storage with rec
Clone(rec) == rec

\* slog.Record.Add
Add(rec, a) == [rec EXCEPT !.attrs = Append(rec.attrs, a)]

----------------------------------------------------------------------------
(* The ReplaceAttr hook, main.go:67-80 *)

Replaced(a) == [panic |-> FALSE, a |-> a]
ReplacePanic(a) == [panic |-> TRUE, a |-> a]

ReplaceAttr_noCritical(groups, a) ==
    IF a.key = MessageKey THEN Replaced([a EXCEPT !.key = MessageName])
    ELSE IF a.key = SourceKey THEN Replaced([a EXCEPT !.key = SourceLocationName])
    ELSE IF a.key = LevelKey THEN
        IF a.val.kind # "level" THEN ReplacePanic(a)
        ELSE Replaced([a EXCEPT !.key = SeverityName])
    ELSE Replaced(a)

\* the hook ignores groups; a.Value.Any().(slog.Level) panics when the
\* attribute named "level" holds anything but a slog.Level
ReplaceAttr(groups, a) ==
    IF a.key = MessageKey THEN Replaced([a EXCEPT !.key = MessageName])
    ELSE IF a.key = SourceKey THEN Replaced([a EXCEPT !.key = SourceLocationName])
    ELSE IF a.key = LevelKey THEN
        IF a.val.kind # "level" THEN ReplacePanic(a)
        ELSE IF a.val.n = LevelCritical
             THEN Replaced(Attr(SeverityName, StringValue(<<"CRITICAL">>)))
             ELSE Replaced([a EXCEPT !.key = SeverityName])
    ELSE Replaced(a)

----------------------------------------------------------------------------
(* slog's JSON handler as NewCloudLoggingHandler configures it             *)
(* (AddSource: true, Level: LevelDebug, ReplaceAttr: the hook above).      *)
(* A serialized line is the sequence of its members in output order, each  *)
(* with the path of object keys that leads to it.                          *)

Formatted(out) == [panic |-> FALSE, out |-> out]
FormatPanic == [panic |-> TRUE, out |-> <<>>]

\* Attr.isEmpty
isEmpty(a) == a.key = "" /\ a.val.kind = "zero"

Member(path, val) == [path |-> path, val |-> val]

\* handleState.appendAttr: the hook runs on every attribute that is no group,
\* empty attributes and empty groups are dropped, a group's members are
\* appended under its key (inline when the key is "")
RECURSIVE appendAttr(_, _)
RECURSIVE appendAttrs(_, _)
appendAttr(groups, a) ==
    LET rep == IF a.val.kind # "group" THEN ReplaceAttr(groups, a) ELSE Replaced(a)
        b == rep.a
    IN IF rep.panic THEN FormatPanic
       ELSE IF isEmpty(b) THEN Formatted(<<>>)
       ELSE IF b.val.kind = "source" THEN
            \* Source.group(): no members when the program counter is 0
            IF b.val.n = 0 THEN Formatted(<<>>)
            ELSE Formatted(<<Member(groups \o <<b.key, "function">>, JSONValue(StringValue(<<"fn">>))),
                             Member(groups \o <<b.key, "file">>, JSONValue(StringValue(<<"main.go">>))),
                             Member(groups \o <<b.key, "line">>, JSONValue(IntValue(b.val.n)))>>)
       ELSE IF b.val.kind = "group" THEN
            IF Len(b.val.g) = 0 THEN Formatted(<<>>)
            ELSE appendAttrs(IF b.key # "" THEN Append(groups, b.key) ELSE groups, b.val.g)
       ELSE Formatted(<<Member(Append(groups, b.key), JSONValue(b.val))>>)

appendAttrs(groups, as) ==
    IF Len(as) = 0 THEN Formatted(<<>>)
    ELSE LET first == appendAttr(groups, Head(as))
             rest == appendAttrs(groups, Tail(as))
         IN IF first.panic \/ rest.panic THEN FormatPanic
            ELSE Formatted(first.out \o rest.out)

\* slog.NewJSONHandler(os.Stderr, opts): no groups, nothing preformatted, and
\* a mutex of its own (the first allocated); clone() copies the pointer
NewJSONHandler == [groups |-> <<>>, pre |-> <<>>, mu |-> 1]

\* commonHandler.enabled with opts.Level = LevelDebug
JSONEnabled(level) == level >= LevelDebug

\* commonHandler.handle up to the write: time (when set), level, source,
\* message, the preformatted attributes, then the record's attributes under
\* the handler's groups
JSONFormat(h, rec) ==
    LET time == IF rec.time # 0 THEN appendAttr(<<>>, Attr(TimeKey, TimeValue(rec.time)))
                ELSE Formatted(<<>>)
        level == appendAttr(<<>>, Attr(LevelKey, LevelValue(rec.level)))
        source == appendAttr(<<>>, Attr(SourceKey, SourceValue(rec.pc)))
        msg == appendAttr(<<>>, Attr(MessageKey, StringValue(rec.msg)))
        attrs == appendAttrs(h.groups, rec.attrs)
    IN IF attrs.panic THEN FormatPanic
       ELSE Formatted(time.out \o level.out \o source.out \o msg.out \o h.pre \o attrs.out)

\* countEmptyGroups(as) = len(as)
AllEmptyGroups(as) == \A i \in 1..Len(as) : as[i].val.kind = "group" /\ Len(as[i].val.g) = 0

\* commonHandler.withAttrs: the attributes are formatted once, under the
\* groups open at that time
JSONWithAttrs(h, as) ==
    IF AllEmptyGroups(as) THEN [panic |-> FALSE, h |-> h]
    ELSE LET f == appendAttrs(h.groups, as)
         IN IF f.panic THEN [panic |-> TRUE, h |-> h]
            ELSE [panic |-> FALSE, h |-> [h EXCEPT !.pre = h.pre \o f.out]]

\* commonHandler.withGroup
JSONWithGroup(h, name) ==
    IF name = "" THEN h ELSE [h EXCEPT !.groups = Append(h.groups, name)]

----------------------------------------------------------------------------
(* CloudLoggingHandler, main.go:61-105 *)

\* main.go:63-82
NewCloudLoggingHandler == [type |-> "CloudLoggingHandler", handler |-> NewJSONHandler]

\* main.go:84-86
Enabled(e, ctx, level) == JSONEnabled(level)

HandleRecord_always(ctx, rec) ==
    LET trace == traceFromContext(ctx)
    IN IF trace.panic THEN [panic |-> TRUE, rec |-> rec]
       ELSE [panic |-> FALSE,
             rec |-> Add(Clone(rec), Attr(TraceName, StringValue(trace.s)))]

\* main.go:89-95 the record Handle passes to the wrapped handler
HandleRecord(ctx, rec) ==
    LET trace == traceFromContext(ctx)
    IN IF trace.panic THEN [panic |-> TRUE, rec |-> rec]
       ELSE IF trace.s # <<>>
            THEN [panic |-> FALSE,
                  rec |-> Add(Clone(rec), Attr(TraceName, StringValue(trace.s)))]
            ELSE [panic |-> FALSE, rec |-> rec]

\* main.go:99-101
WithAttrs(e, attrs) ==
    LET d == JSONWithAttrs(e.handler, attrs)
    IN [panic |-> d.panic, e |-> [type |-> "CloudLoggingHandler", handler |-> d.h]]

WithGroup_bare(e, name) == [type |-> "JSONHandler", handler |-> JSONWithGroup(e.handler, name)]

WithGroup_ownMutex(e, name) ==
    [type |-> "CloudLoggingHandler",
     handler |-> [JSONWithGroup(e.handler, name) EXCEPT !.mu = 2]]

\* main.go:103-105
WithGroup(e, name) == [type |-> "CloudLoggingHandler", handler |-> JSONWithGroup(e.handler, name)]

HandleReturn_swallow(backendErr) == "nil"

\* main.go:96 Handle returns what the wrapped handler's Handle returned
HandleReturn(backendErr) == backendErr

----------------------------------------------------------------------------
(* Inputs *)

\* the requests in flight at once
Tasks == {1, 2}

ServerContext == WithValue(Background, "http-server", StrVal(<<"s">>))
\* a context in which another package bound "trace" to something that is no string
ForeignTrace == [kind |-> "int", v |-> <<>>]
InboundContexts ==
    {Background, ServerContext, WithValue(ServerContext, TraceKey, ForeignTrace),
     WithValue(ServerContext, TraceKey, StrVal(<<"x">>))}

HeaderAlphabet == {"a", "b", Slash}
\* the README's example value, abc123/1;o=1
ExampleHeader == <<"a", "b", "c", "1", "2", "3", "/", "1", ";", "o", "=", "1">>
HeaderValues == SeqsUpTo(HeaderAlphabet, MaxHdrLen) \cup {ExampleHeader}
\* the X-Cloud-Trace-Context values of a request: none, one, or two
Headers == {<<>>} \cup {<<v>> : v \in HeaderValues}
             \cup {<<<<>>, <<"a">>>>, <<<<"a", Slash, "b">>, <<"b">>>>}
FewHeaders == {<<>>, <<<<"a", Slash, "b">>>>, <<ExampleHeader>>}

Rec(level, msg, pc, time, attrs) ==
    [level |-> level, msg |-> msg, pc |-> pc, time |-> time, attrs |-> attrs]
NoRec == Rec(0, <<>>, 0, 0, <<>>)

Levels == {-8, -4, 0, 4, 8, 12, 13}

KV == Attr("mycount", IntValue(42))
UserMsg == Attr(MessageKey, StringValue(<<"x">>))
UserLevel == Attr(LevelKey, LevelValue(0))
UserLevelInt == Attr(LevelKey, IntValue(42))
GroupNamedMsg == Attr(MessageKey, GroupValue(<<KV>>))
GroupWithLevelInt == Attr("g", GroupValue(<<UserLevelInt>>))
EmptyAttr == Attr("", ZeroValue)
UserTrace == Attr(TraceName, StringValue(<<"x">>))

AttrLists ==
    {<<>>, <<KV>>, <<UserMsg>>, <<UserLevel>>, <<UserLevelInt>>, <<GroupNamedMsg>>,
     <<GroupWithLevelInt>>, <<EmptyAttr, KV>>, <<UserTrace>>}

\* the line of the slog.InfoContext call, main.go:117
CallerPC == 117

LogRecords ==
    {Rec(l, <<"m">>, CallerPC, 1, <<>>) : l \in Levels}
    \cup {Rec(0, <<"m">>, CallerPC, 1, as) : as \in AttrLists}
    \cup {Rec(0, <<>>, CallerPC, 1, <<>>), Rec(0, <<"m">>, 0, 1, <<>>),
          Rec(LevelCritical, <<"m">>, CallerPC, 0, <<KV>>)}
FewRecords == {Rec(0, <<"m">>, CallerPC, 1, <<KV>>), Rec(LevelCritical, <<>>, CallerPC, 1, <<>>)}
OneRecord == {Rec(0, <<"m">>, CallerPC, 1, <<KV>>)}

DeriveAttrLists == {<<KV>>, <<UserLevelInt>>}
GroupNames == {"g"}

----------------------------------------------------------------------------
(* State *)

NoCall ==
    [state |-> "none", em |-> 0, rec |-> NoRec, drec |-> NoRec, line |-> <<>>,
     part |-> 0, complete |-> FALSE, backendCalls |-> 0, backendErr |-> "none",
     ret |-> "none"]

NewTask ==
    [pc |-> "new", kind |-> "none", req |-> [header |-> <<>>, ctx |-> Background],
     calls |-> <<>>, resp |-> <<>>, ctx |-> Background, nlog |-> 0, call |-> NoCall]

MutexAddrs == {1, 2}

\* the state when WithCloudTraceContext and NewCloudLoggingHandler have
\* returned (main.go:111, 129), GOOGLE_CLOUD_PROJECT being one of envs
InitWith(envs) ==
    /\ \E env \in envs, md \in MetadataResults :
          /\ ~ResolveProject(env, md).panic
          /\ projectID = ResolveProject(env, md).id
    /\ emitters = <<NewCloudLoggingHandler>>
    /\ derived = <<[from |-> 0, op |-> "NewCloudLoggingHandler", attrs |-> <<>>, name |-> ""]>>
    /\ tasks = [t \in Tasks |-> NewTask]
    /\ mu = [m \in MutexAddrs |-> 0]
    /\ stderr = <<>>

Init == InitWith({Myproj})
InitMW == InitWith(EnvValues)

----------------------------------------------------------------------------
(* Actions *)

\* main.go:38-46 one request enters the middleware, which calls the wrapped
\* handler with the augmented request; the task is then inside that handler
ServeHTTP(t, header, ctx) ==
    /\ tasks[t].pc = "new"
    /\ LET r == [header |-> header, ctx |-> ctx]
           c == Middleware(projectID, t, r)
       IN tasks' = [tasks EXCEPT ![t] =
                       [@ EXCEPT !.pc = "app", !.kind = "http", !.req = r,
                                 !.calls = Append(@, [w |-> c.w, r |-> c.r]),
                                 !.resp = @ \o c.written,
                                 !.ctx = c.r.ctx]]
    /\ UNCHANGED <<projectID, emitters, mu, stderr, derived>>

\* main.go:128 a caller that logs outside any request: after slog.SetDefault
\* (main.go:111) log.Printf reaches Handle with context.Background()
DirectCall(t) ==
    /\ tasks[t].pc = "new"
    /\ tasks' = [tasks EXCEPT ![t] = [@ EXCEPT !.pc = "app", !.kind = "direct",
                                               !.ctx = Background]]
    /\ UNCHANGED <<projectID, emitters, mu, stderr, derived>>

\* main.go:88-96 Handle up to the wrapped handler's mu.Lock(): the trace is
\* read from the context, the record extended, and the line formatted. A
\* slog.Logger calls Handle only when Enabled reported true.
HandleBegin(t, e, rec) ==
    /\ tasks[t].pc = "app"
    /\ tasks[t].nlog < MaxLogs
    /\ e \in 1..Len(emitters)
    /\ Enabled(emitters[e], tasks[t].ctx, rec.level)
    /\ LET cloud == emitters[e].type = "CloudLoggingHandler"
           hr == IF cloud THEN HandleRecord(tasks[t].ctx, rec)
                 ELSE [panic |-> FALSE, rec |-> rec]
           f == JSONFormat(emitters[e].handler, hr.rec)
           c0 == [NoCall EXCEPT !.em = e, !.rec = rec]
       IN tasks' = [tasks EXCEPT ![t] =
            IF hr.panic
            THEN [@ EXCEPT !.pc = "panicked", !.nlog = @ + 1,
                           !.call = [c0 EXCEPT !.state = "panicked"]]
            ELSE IF f.panic
            THEN [@ EXCEPT !.pc = "panicked", !.nlog = @ + 1,
                           !.call = [c0 EXCEPT !.state = "panicked", !.drec = hr.rec,
                                               !.backendCalls = 1]]
            ELSE [@ EXCEPT !.pc = "locking", !.nlog = @ + 1,
                           !.call = [c0 EXCEPT !.state = "running", !.drec = hr.rec,
                                               !.backendCalls = 1, !.line = f.out]]]
    /\ UNCHANGED <<projectID, emitters, mu, stderr, derived>>

\* the mutex of the handler the current call writes through
MutexOf(t) == emitters[tasks[t].call.em].handler.mu

\* commonHandler.handle: h.mu.Lock()
Lock(t) ==
    /\ tasks[t].pc = "locking"
    /\ mu[MutexOf(t)] = 0
    /\ mu' = [mu EXCEPT ![MutexOf(t)] = t]
    /\ tasks' = [tasks EXCEPT ![t].pc = "writing"]
    /\ UNCHANGED <<projectID, emitters, stderr, derived>>

\* h.w.Write(buf): os.File.Write hands the line to write(2), which may take
\* only a part of it and is then called again for the rest; the last chunk
\* ends with the newline
WriteChunk(t) ==
    /\ tasks[t].pc = "writing"
    /\ tasks[t].call.part < NumChunks
    /\ stderr' = Append(stderr, [task |-> t, part |-> tasks[t].call.part + 1,
                                 last |-> tasks[t].call.part + 1 = NumChunks])
    /\ tasks' = [tasks EXCEPT ![t].call.part = @ + 1,
                              ![t].call.complete = (tasks[t].call.part + 1 = NumChunks)]
    /\ UNCHANGED <<projectID, emitters, mu, derived>>

\* write(2) fails: Write returns the error, the deferred Unlock runs, and
\* Handle returns
WriteFail(t) ==
    /\ tasks[t].pc = "writing"
    /\ ~tasks[t].call.complete
    /\ mu' = [mu EXCEPT ![MutexOf(t)] = 0]
    /\ tasks' = [tasks EXCEPT ![t] =
                    [@ EXCEPT !.pc = "returned",
                              !.call = [@ EXCEPT !.state = "returned", !.backendErr = "EIO",
                                                 !.ret = HandleReturn("EIO")]]]
    /\ UNCHANGED <<projectID, emitters, stderr, derived>>

\* the stream after its last newline
RECURSIVE AfterNewline(_)
AfterNewline(stream) ==
    IF \E i \in 1..Len(stream) : stream[i].last THEN AfterNewline(Tail(stream)) ELSE stream

\* the whole line is written: the deferred Unlock runs and Handle returns.
\* Lines that are ended are not kept in stderr any longer.
Return(t) ==
    /\ tasks[t].pc = "writing"
    /\ tasks[t].call.complete
    /\ mu' = [mu EXCEPT ![MutexOf(t)] = 0]
    /\ stderr' = AfterNewline(stderr)
    /\ tasks' = [tasks EXCEPT ![t] =
                    [@ EXCEPT !.pc = "returned",
                              !.call = [@ EXCEPT !.state = "returned", !.backendErr = "nil",
                                                 !.ret = HandleReturn("nil")]]]
    /\ UNCHANGED <<projectID, emitters, derived>>

\* the caller of Handle goes on; the call's locals are gone
Resume(t) ==
    /\ tasks[t].pc = "returned"
    /\ tasks' = [tasks EXCEPT ![t] = [@ EXCEPT !.pc = "app", !.call = NoCall]]
    /\ UNCHANGED <<projectID, emitters, mu, stderr, derived>>

\* main.go:99-101 a caller derives an emitter with attributes
DeriveAttrs(t, e, attrs) ==
    /\ tasks[t].pc = "app"
    /\ Len(emitters) < MaxEmitters
    /\ e \in 1..Len(emitters)
    /\ emitters[e].type = "CloudLoggingHandler"
    /\ LET d == WithAttrs(emitters[e], attrs)
       IN IF d.panic
          THEN /\ tasks' = [tasks EXCEPT ![t].pc = "panicked"]
               /\ UNCHANGED <<emitters, derived>>
          ELSE /\ emitters' = Append(emitters, d.e)
               /\ derived' = Append(derived, [from |-> e, op |-> "WithAttrs",
                                              attrs |-> attrs, name |-> ""])
               /\ UNCHANGED tasks
    /\ UNCHANGED <<projectID, mu, stderr>>

\* main.go:103-105 a caller derives an emitter with a group
DeriveGroup(t, e, name) ==
    /\ tasks[t].pc = "app"
    /\ Len(emitters) < MaxEmitters
    /\ e \in 1..Len(emitters)
    /\ emitters[e].type = "CloudLoggingHandler"
    /\ emitters' = Append(emitters, WithGroup(emitters[e], name))
    /\ derived' = Append(derived, [from |-> e, op |-> "WithGroup", attrs |-> <<>>,
                                   name |-> name])
    /\ UNCHANGED <<projectID, tasks, mu, stderr>>

\* the wrapped handler returns, and the middleware closure after it
Finish(t) ==
    /\ tasks[t].pc = "app"
    /\ tasks' = [tasks EXCEPT ![t] = [NewTask EXCEPT !.pc = "done"]]
    /\ UNCHANGED <<projectID, emitters, mu, stderr, derived>>

----------------------------------------------------------------------------
(* Specifications *)

\* concurrent requests through the middleware, logging through the shared emitters
Next ==
    \E t \in Tasks :
        \/ \E h \in FewHeaders : ServeHTTP(t, h, ServerContext)
        \/ \E e \in 1..MaxEmitters, r \in OneRecord :
              tasks[t].nlog < ConcLogs /\ HandleBegin(t, e, r)
        \/ Lock(t)
        \/ WriteChunk(t)
        \/ WriteFail(t)
        \/ Return(t)
        \/ Resume(t)
        \/ \E e \in 1..MaxEmitters : DeriveGroup(t, e, "g")
        \/ Finish(t)

Spec == Init /\ [][Next]_vars

\* one request at a time, every header value and inbound context
NextMW ==
    \/ \E h \in Headers, c \in InboundContexts : ServeHTTP(1, h, c)
    \/ \E r \in FewRecords : HandleBegin(1, 1, r)
    \/ Lock(1)
    \/ WriteChunk(1)
    \/ WriteFail(1)
    \/ Return(1)
    \/ Resume(1)
    \/ Finish(1)

SpecMW == InitMW /\ [][NextMW]_vars

\* one caller, every record shape and every derived emitter
NextLog ==
    \/ \E h \in FewHeaders : ServeHTTP(1, h, ServerContext)
    \/ DirectCall(1)
    \/ \E e \in 1..MaxEmitters, r \in LogRecords : HandleBegin(1, e, r)
    \/ Lock(1)
    \/ WriteChunk(1)
    \/ WriteFail(1)
    \/ Return(1)
    \/ Resume(1)
    \/ \E e \in 1..MaxEmitters, as \in DeriveAttrLists : DeriveAttrs(1, e, as)
    \/ \E e \in 1..MaxEmitters, g \in GroupNames : DeriveGroup(1, e, g)
    \/ Finish(1)

SpecLog == Init /\ [][NextLog]_vars

----------------------------------------------------------------------------
(* Properties *)

InFlight(t) == tasks[t].pc \notin {"new", "done"}
Served(t) == tasks[t].kind = "http" /\ InFlight(t)
\* a Handle call of t whose line was formatted
Handled(t) == tasks[t].call.state \in {"running", "returned"}

\* the part of h before its first "/" (all of h when it holds none)
FirstSegment(h) ==
    IF \E i \in 1..Len(h) : h[i] = Slash
    THEN SubSeq(h, 1, (CHOOSE i \in 1..Len(h) : h[i] = Slash /\ \A j \in 1..(i - 1) : h[j] # Slash) - 1)
    ELSE h

\* the trace resource name the spec gives a request
ExpectedTrace(t) ==
    LET id == FirstSegment(HeaderGet(tasks[t].req.header))
    IN IF id = <<>> THEN <<>> ELSE ProjectsPrefix \o projectID \o TracesInfix \o id

TraceAttr(trace) == Attr(TraceName, StringValue(trace))
JSONString(text) == [json |-> "string", text |-> text, off |-> 0]

\* the keys of the JSON object itself
TopLevelKeys(line) == {line[i].path[1] : i \in 1..Len(line)}
\* every object key of the line, nested ones included
AllKeys(line) == UNION {{line[i].path[j] : j \in 1..Len(line[i].path)} : i \in 1..Len(line)}
\* the values of the top-level member named key
TopLevelValues(line, key) == {line[i].val : i \in {j \in 1..Len(line) : line[j].path = <<key>>}}
\* the values of the members named key at any depth
ValuesAnywhere(line, key) ==
    {line[i].val : i \in {j \in 1..Len(line) : line[j].path[Len(line[j].path)] = key}}

ProjectsMyprojTracesAbc123 ==
    <<"p", "r", "o", "j", "e", "c", "t", "s", "/", "m", "y", "p", "r", "o", "j",
      "/", "t", "r", "a", "c", "e", "s", "/", "a", "b", "c", "1", "2", "3">>

\* C1: for a request whose X-Cloud-Trace-Context value is "<id>/<span>" with a
\* non-empty <id>, the context the wrapped handler receives binds "trace" to
\* "projects/<project>/traces/<id>", whatever follows the first "/".
C1_TraceFromHeader ==
    \A t \in Tasks :
        Served(t) =>
            LET h == HeaderGet(tasks[t].req.header)
            IN \A i \in 1..Len(h) :
                  (i > 1 /\ h[i] = Slash /\ \A j \in 1..(i - 1) : h[j] # Slash)
                  => Value(tasks[t].ctx, TraceKey)
                       = StrVal(ProjectsPrefix \o projectID \o TracesInfix \o SubSeq(h, 1, i - 1))

\* the README's example, abc123/1;o=1 under project myproj
C1_Witness ==
    \E t \in Tasks :
        /\ Served(t)
        /\ tasks[t].req.header = <<ExampleHeader>>
        /\ projectID = Myproj
        /\ Value(tasks[t].ctx, TraceKey) = StrVal(ProjectsMyprojTracesAbc123)

\* C2: for a request whose header is absent, empty or starts with "/", Handle
\* passes the caller's record on as it is, the line holds no trace member, and
\* Handle returns what the wrapped handler returned (no panic, no error of its own).
C2_NoTraceWithoutHeader ==
    \A t \in Tasks :
        (Served(t) /\ tasks[t].call.state # "none"
         /\ FirstSegment(HeaderGet(tasks[t].req.header)) = <<>>)
        => /\ tasks[t].call.state # "panicked"
           /\ tasks[t].call.drec = tasks[t].call.rec
           /\ TraceName \notin AllKeys(tasks[t].call.line)
           /\ tasks[t].call.state = "returned" => tasks[t].call.ret = tasks[t].call.backendErr

C2_Witness ==
    \E t \in Tasks :
        /\ Served(t)
        /\ tasks[t].req.header = <<<<Slash, "a">>>>
        /\ tasks[t].call.state = "returned"
        /\ tasks[t].call.ret = "nil"
        /\ tasks[t].call.drec = tasks[t].call.rec

\* C3: whenever Handle runs with a context that carries a non-empty trace and
\* the record is serialized, the record passed on is the caller's plus one
\* attribute logging.googleapis.com/trace = the trace, and the emitted JSON
\* object has that field with that value.
C3_TraceFieldEmitted ==
    \A t \in Tasks :
        (Handled(t) /\ traceFromContext(tasks[t].ctx).s # <<>>)
        => /\ tasks[t].call.drec
                = Add(tasks[t].call.rec, TraceAttr(traceFromContext(tasks[t].ctx).s))
           /\ JSONString(traceFromContext(tasks[t].ctx).s)
                \in TopLevelValues(tasks[t].call.line, TraceName)

\* a record as a slog.Logger makes it from key/value arguments: the program
\* counter of the call, and no group among its attributes
PlainRecord(rec) ==
    /\ rec.pc # 0
    /\ \A i \in 1..Len(rec.attrs) : rec.attrs[i].val.kind # "group"

\* C4: every record the emitter handles (here: every record with a program
\* counter and plain key/value attributes) is serialized, with the keys
\* message, severity and logging.googleapis.com/sourceLocation in the JSON
\* object and none of msg, level, source as a key anywhere in it.
C4_RenamedKeys ==
    \A t \in Tasks :
        (tasks[t].call.state # "none" /\ PlainRecord(tasks[t].call.rec))
        => /\ Handled(t)
           /\ {MessageName, SeverityName, SourceLocationName}
                \subseteq TopLevelKeys(tasks[t].call.line)
           /\ AllKeys(tasks[t].call.line) \cap BuiltinKeys = {}

\* the member the record's own level is written to: the first one named severity
SeverityOf(line) ==
    line[CHOOSE i \in 1..Len(line) :
            /\ line[i].path = <<SeverityName>>
            /\ \A j \in 1..(i - 1) : line[j].path # <<SeverityName>>].val

\* C5: a record at LevelCritical (12) is written with severity "CRITICAL"; a
\* record at any other level with the level's standard name (DEBUG, INFO,
\* WARN, ERROR, plus the offset from it).
C5_Severity ==
    \A t \in Tasks :
        Handled(t) =>
            /\ SeverityName \in TopLevelKeys(tasks[t].call.line)
            /\ SeverityOf(tasks[t].call.line)
                 = IF tasks[t].call.rec.level = 12 THEN JSONString(<<"CRITICAL">>)
                   ELSE [json |-> "string",
                         text |-> LevelString(tasks[t].call.rec.level).text,
                         off |-> LevelString(tasks[t].call.rec.level).off]
            /\ tasks[t].call.rec.level = 0 => SeverityOf(tasks[t].call.line) = JSONString(<<"INFO">>)
            /\ tasks[t].call.rec.level = 8 => SeverityOf(tasks[t].call.line) = JSONString(<<"ERROR">>)

C5_Witness ==
    \E t \in Tasks :
        /\ tasks[t].call.state = "returned"
        /\ tasks[t].call.rec.level = LevelCritical
        /\ SeverityOf(tasks[t].call.line) = JSONString(<<"CRITICAL">>)

\* C6: whatever the other requests do, a record handled with the context of
\* request R is passed on with R's own trace (from R's header and the project)
\* as its one added attribute, or unchanged when R has no trace, and every
\* trace member of its line holds R's own trace.
C6_TraceIsRequestScoped ==
    \A t \in Tasks :
        (Served(t) /\ tasks[t].call.state # "none")
        => /\ tasks[t].call.drec
                = IF ExpectedTrace(t) = <<>> THEN tasks[t].call.rec
                  ELSE Add(tasks[t].call.rec, TraceAttr(ExpectedTrace(t)))
           /\ ValuesAnywhere(tasks[t].call.line, TraceName)
                \subseteq {JSONString(ExpectedTrace(t))}
           /\ ExpectedTrace(t) = <<>> => TraceName \notin AllKeys(tasks[t].call.line)

\* two requests with different traces and one without, their Handle calls in flight together
C6_Witness ==
    \E t, u \in Tasks :
        /\ t # u
        /\ Served(t) /\ Served(u)
        /\ Handled(t) /\ Handled(u)
        /\ tasks[t].call.state = "running" /\ tasks[u].call.state = "running"
        /\ ExpectedTrace(t) # <<>>
        /\ ExpectedTrace(u) = <<>>
        /\ JSONString(ExpectedTrace(t)) \in ValuesAnywhere(tasks[t].call.line, TraceName)

\* the last n chunks of the stream
LastChunks(n) == SubSeq(stderr, Len(stderr) - n + 1, Len(stderr))

\* C7 as amended: chunks of different records never interleave (while a call
\* writes, what it has written so far ends the stream, in order, and a later
\* part always follows its own previous part), and every Handle call that
\* returns nil has written its line whole.
C7_NoInterleaving ==
    /\ \A t \in Tasks :
          tasks[t].pc = "writing" =>
              /\ tasks[t].call.part <= Len(stderr)
              /\ LastChunks(tasks[t].call.part)
                   = [i \in 1..tasks[t].call.part |->
                        [task |-> t, part |-> i, last |-> i = NumChunks]]
    /\ \A i \in 1..Len(stderr) :
          stderr[i].part > 1 =>
              /\ i > 1
              /\ stderr[i - 1].task = stderr[i].task
              /\ stderr[i - 1].part = stderr[i].part - 1
    /\ \A t \in Tasks :
          (tasks[t].call.state = "returned" /\ tasks[t].call.ret = "nil")
          => tasks[t].call.complete /\ tasks[t].call.part = NumChunks

\* one request in the middle of its line, through a derived emitter, while
\* the other waits for the mutex with its line formatted
C7_Witness ==
    \E t, u \in Tasks :
        /\ tasks[t].pc = "writing" /\ tasks[t].call.part >= 1 /\ ~tasks[t].call.complete
        /\ tasks[u].pc = "locking"
        /\ tasks[t].call.em # tasks[u].call.em

\* C7 as the claim states it: every Handle call that has ended contributed one
\* complete line, and every ended line of the stream is one whole record.
C7_EveryCallOneLine ==
    /\ \A t \in Tasks :
          tasks[t].call.state \in {"returned", "panicked"} => tasks[t].call.complete
    /\ \A i \in 1..Len(stderr) :
          stderr[i].last =>
              /\ i >= NumChunks
              /\ \A k \in 1..NumChunks :
                    /\ stderr[i - NumChunks + k].task = stderr[i].task
                    /\ stderr[i - NumChunks + k].part = k
              /\ i > NumChunks => stderr[i - NumChunks].last

\* C8: Handle calls the wrapped handler's Handle once, and what Handle returns
\* is what that call returned, error or nil, with or without a trace attribute.
C8_ErrorPropagated ==
    \A t \in Tasks :
        /\ tasks[t].call.state # "none" => tasks[t].call.backendCalls = 1
        /\ tasks[t].call.state = "returned"
           => /\ tasks[t].call.backendErr \in {"nil", "EIO"}
              /\ tasks[t].call.ret = tasks[t].call.backendErr
        /\ tasks[t].call.state = "running" => tasks[t].call.ret = "none"

\* a write failure reaches the caller of a Handle call that added the trace
C8_Witness ==
    \E t \in Tasks :
        /\ tasks[t].call.state = "returned"
        /\ tasks[t].call.backendErr = "EIO"
        /\ tasks[t].call.ret = "EIO"
        /\ tasks[t].call.drec # tasks[t].call.rec

\* C9: the middleware calls the wrapped handler once, with the response writer
\* it was given and a request that differs from the inbound one in its context
\* only; the context binds "trace" to a string and every other key as before;
\* the middleware writes nothing to the response.
ContextKeys == {"http-server", TraceKey, "other"}

C9_MiddlewareFrame ==
    \A t \in Tasks :
        Served(t) =>
            /\ Len(tasks[t].calls) = 1
            /\ tasks[t].calls[1].w = t
            /\ [tasks[t].calls[1].r EXCEPT !.ctx = tasks[t].req.ctx] = tasks[t].req
            /\ tasks[t].resp = <<>>
            /\ Value(tasks[t].calls[1].r.ctx, TraceKey).kind = "string"
            /\ \A k \in ContextKeys \ {TraceKey} :
                  Value(tasks[t].calls[1].r.ctx, k) = Value(tasks[t].req.ctx, k)
            /\ tasks[t].ctx = tasks[t].calls[1].r.ctx

\* a malformed header ("//") on a request whose context already binds other keys
C9_Witness ==
    \E t \in Tasks :
        /\ Served(t)
        /\ tasks[t].req.header = <<<<Slash, Slash>>>>
        /\ Value(tasks[t].req.ctx, "http-server") = StrVal(<<"s">>)
        /\ Value(tasks[t].req.ctx, TraceKey) = ForeignTrace
        /\ Len(tasks[t].calls) = 1
        /\ Value(tasks[t].calls[1].r.ctx, TraceKey) = StrVal(<<>>)

====
